---- MODULE Spec2Model ----
(***************************************************************************)
(* Locale-identity resolution layer of pabal-web-mcp: the unified locale   *)
(* catalog, the four translation tables, the derived supported-locale      *)
(* lists and the conversion facade (constants/unified-locales.ts,          *)
(* utils/locale-converter.ts, types/aso/aso.types.ts).                     *)
(*                                                                         *)
(* A caller invokes one facade operation at a time.  The state records the *)
(* operation, its argument and its outcome, and, when the argument is the  *)
(* string returned by the previous call, the calls it was piped through.   *)
(***************************************************************************)
EXTENDS Naturals, Sequences, FiniteSets, TLC

(***************************************************************************)
(* JavaScript values.  A thrown Error is an outcome of kind "throw" whose  *)
(* val is the message, kept as the segments the template literal joins.    *)
(***************************************************************************)
S(s) == [kind |-> "string", val |-> s]

Null == [kind |-> "null", val |-> ""]

Undefined == [kind |-> "undefined", val |-> ""]

Bool(b) == [kind |-> "boolean", val |-> IF b THEN "true" ELSE "false"]

Throw(msg) == [kind |-> "throw", val |-> msg]

Arr(items) == [kind |-> "array", items |-> items]

Obj(entries) == [kind |-> "object", entries |-> entries]

(* Object.prototype.constructor, what an object literal answers for the
   key "constructor" that it does not own *)
ObjectFn == [kind |-> "function", val |-> "function Object() { [native code] }"]

(* names every object literal inherits from Object.prototype *)
ObjectPrototypeKeys == {"constructor"}

(* !v *)
Falsy(v) == v.kind \in {"undefined", "null"} \/ v = S("") \/ v = Bool(FALSE)

(* v ?? d *)
Coalesce(v, d) == IF v.kind \in {"undefined", "null"} THEN d ELSE v

(* the property key a value is converted to in obj[v] *)
ToPropertyKey(v) ==
  CASE v.kind = "undefined" -> "undefined"
    [] v.kind = "null" -> "null"
    [] OTHER -> v.val

(* obj[v] on an object literal given as its own properties *)
Get(obj, v) ==
  LET k == ToPropertyKey(v)
      own == {i \in 1..Len(obj) : obj[i][1] = k}
  IN  IF own # {} THEN obj[CHOOSE i \in own : TRUE][2]
      ELSE IF k \in ObjectPrototypeKeys THEN ObjectFn
      ELSE Undefined

(* array.includes(s) *)
Includes(array, s) == \E i \in 1..Len(array) : array[i] = s

(* the own keys of an object literal *)
Keys(obj) == {obj[i][1] : i \in 1..Len(obj)}

(* the elements of an array *)
Elems(array) == {array[i] : i \in 1..Len(array)}

(* export const UNIFIED_LOCALES = [...] as const, in source order *)
UNIFIED_LOCALES ==
  <<
    "af", "am", "ar", "az-AZ", "be", "bg-BG", "bn-BD", "ca-ES", "cs-CZ",
    "da-DK", "de-DE", "el-GR", "en-AU", "en-CA", "en-GB", "en-IN", "en-SG",
    "en-US", "en-ZA", "es-419", "es-ES", "es-US", "et-EE", "eu-ES", "fa",
    "fa-AE", "fa-AF", "fa-IR", "fi-FI", "fil", "fr-CA", "fr-FR", "gl-ES",
    "gu", "he-IL", "hi-IN", "hr-HR", "hu-HU", "hy-AM", "id-ID", "is-IS",
    "it-IT", "ja-JP", "ka-GE", "kk", "km-KH", "kn-IN", "ko-KR", "ky-KG",
    "lo-LA", "lt-LT", "lv-LV", "mk-MK", "ml-IN", "mn-MN", "mr-IN", "ms",
    "ms-MY", "my-MM", "ne-NP", "nl-NL", "no-NO", "pa", "pl-PL", "pt-BR",
    "pt-PT", "rm", "ro-RO", "ru-RU", "si-LK", "sk-SK", "sl-SI", "sq",
    "sr-RS", "sv-SE", "sw", "ta-IN", "te-IN", "th-TH", "tr-TR", "uk-UA",
    "ur", "vi-VN", "zh-HK", "zh-Hans", "zh-Hant", "zu"
  >>

(* unified -> App Store Connect code, null where the store has no locale:
   the object literal as its own properties <<key, value>>, in insertion
   order *)
UNIFIED_TO_APP_STORE ==
  <<
    <<"af", Null>>, <<"am", Null>>, <<"ar", S("ar-SA")>>, <<"az-AZ", Null>>,
    <<"be", Null>>, <<"bg-BG", Null>>, <<"bn-BD", Null>>,
    <<"ca-ES", S("ca")>>, <<"cs-CZ", S("cs")>>, <<"da-DK", S("da")>>,
    <<"de-DE", S("de-DE")>>, <<"el-GR", S("el")>>, <<"en-AU", S("en-AU")>>,
    <<"en-CA", S("en-CA")>>, <<"en-GB", S("en-GB")>>, <<"en-IN", Null>>,
    <<"en-SG", Null>>, <<"en-US", S("en-US")>>, <<"en-ZA", Null>>,
    <<"es-419", S("es-MX")>>, <<"es-ES", S("es-ES")>>, <<"es-US", Null>>,
    <<"et-EE", Null>>, <<"eu-ES", Null>>, <<"fa", Null>>, <<"fa-AE", Null>>,
    <<"fa-AF", Null>>, <<"fa-IR", Null>>, <<"fi-FI", S("fi")>>,
    <<"fil", Null>>, <<"fr-CA", S("fr-CA")>>, <<"fr-FR", S("fr-FR")>>,
    <<"gl-ES", Null>>, <<"gu", Null>>, <<"he-IL", S("he")>>,
    <<"hi-IN", S("hi")>>, <<"hr-HR", S("hr")>>, <<"hu-HU", S("hu")>>,
    <<"hy-AM", Null>>, <<"id-ID", S("id")>>, <<"is-IS", Null>>,
    <<"it-IT", S("it")>>, <<"ja-JP", S("ja")>>, <<"ka-GE", Null>>,
    <<"kk", Null>>, <<"km-KH", Null>>, <<"kn-IN", Null>>,
    <<"ko-KR", S("ko")>>, <<"ky-KG", Null>>, <<"lo-LA", Null>>,
    <<"lt-LT", Null>>, <<"lv-LV", Null>>, <<"mk-MK", Null>>,
    <<"ml-IN", Null>>, <<"mn-MN", Null>>, <<"mr-IN", Null>>, <<"ms", Null>>,
    <<"ms-MY", S("ms")>>, <<"my-MM", Null>>, <<"ne-NP", Null>>,
    <<"nl-NL", S("nl-NL")>>, <<"no-NO", S("no")>>, <<"pa", Null>>,
    <<"pl-PL", S("pl")>>, <<"pt-BR", S("pt-BR")>>, <<"pt-PT", S("pt-PT")>>,
    <<"rm", Null>>, <<"ro-RO", S("ro")>>, <<"ru-RU", S("ru")>>,
    <<"si-LK", Null>>, <<"sk-SK", S("sk")>>, <<"sl-SI", Null>>,
    <<"sq", Null>>, <<"sr-RS", Null>>, <<"sv-SE", S("sv")>>, <<"sw", Null>>,
    <<"ta-IN", Null>>, <<"te-IN", Null>>, <<"th-TH", S("th")>>,
    <<"tr-TR", S("tr")>>, <<"uk-UA", S("uk")>>, <<"ur", Null>>,
    <<"vi-VN", S("vi")>>, <<"zh-HK", Null>>, <<"zh-Hans", S("zh-Hans")>>,
    <<"zh-Hant", S("zh-Hant")>>, <<"zu", Null>>
  >>

(* unified -> Google Play Console code: the object literal as its own properties <<key, value>>,
   in insertion order *)
UNIFIED_TO_GOOGLE_PLAY ==
  <<
    <<"af", S("af")>>, <<"am", S("am")>>, <<"ar", S("ar")>>,
    <<"az-AZ", S("az-AZ")>>, <<"be", S("be")>>, <<"bg-BG", S("bg")>>,
    <<"bn-BD", S("bn-BD")>>, <<"ca-ES", S("ca")>>, <<"cs-CZ", S("cs-CZ")>>,
    <<"da-DK", S("da-DK")>>, <<"de-DE", S("de-DE")>>,
    <<"el-GR", S("el-GR")>>, <<"en-AU", S("en-AU")>>,
    <<"en-CA", S("en-CA")>>, <<"en-GB", S("en-GB")>>,
    <<"en-IN", S("en-IN")>>, <<"en-SG", S("en-SG")>>,
    <<"en-US", S("en-US")>>, <<"en-ZA", S("en-ZA")>>,
    <<"es-419", S("es-419")>>, <<"es-ES", S("es-ES")>>,
    <<"es-US", S("es-US")>>, <<"et-EE", S("et")>>, <<"eu-ES", S("eu-ES")>>,
    <<"fa", S("fa")>>, <<"fa-AE", S("fa-AE")>>, <<"fa-AF", S("fa-AF")>>,
    <<"fa-IR", S("fa-IR")>>, <<"fi-FI", S("fi-FI")>>, <<"fil", S("fil")>>,
    <<"fr-CA", S("fr-CA")>>, <<"fr-FR", S("fr-FR")>>,
    <<"gl-ES", S("gl-ES")>>, <<"gu", S("gu")>>, <<"he-IL", S("iw-IL")>>,
    <<"hi-IN", S("hi-IN")>>, <<"hr-HR", S("hr")>>, <<"hu-HU", S("hu-HU")>>,
    <<"hy-AM", S("hy-AM")>>, <<"id-ID", S("id")>>, <<"is-IS", S("is-IS")>>,
    <<"it-IT", S("it-IT")>>, <<"ja-JP", S("ja-JP")>>,
    <<"ka-GE", S("ka-GE")>>, <<"kk", S("kk")>>, <<"km-KH", S("km-KH")>>,
    <<"kn-IN", S("kn-IN")>>, <<"ko-KR", S("ko-KR")>>,
    <<"ky-KG", S("ky-KG")>>, <<"lo-LA", S("lo-LA")>>, <<"lt-LT", S("lt")>>,
    <<"lv-LV", S("lv")>>, <<"mk-MK", S("mk-MK")>>, <<"ml-IN", S("ml-IN")>>,
    <<"mn-MN", S("mn-MN")>>, <<"mr-IN", S("mr-IN")>>, <<"ms", S("ms")>>,
    <<"ms-MY", S("ms-MY")>>, <<"my-MM", S("my-MM")>>,
    <<"ne-NP", S("ne-NP")>>, <<"nl-NL", S("nl-NL")>>,
    <<"no-NO", S("no-NO")>>, <<"pa", S("pa")>>, <<"pl-PL", S("pl-PL")>>,
    <<"pt-BR", S("pt-BR")>>, <<"pt-PT", S("pt-PT")>>, <<"rm", S("rm")>>,
    <<"ro-RO", S("ro")>>, <<"ru-RU", S("ru-RU")>>, <<"si-LK", S("si-LK")>>,
    <<"sk-SK", S("sk")>>, <<"sl-SI", S("sl")>>, <<"sq", S("sq")>>,
    <<"sr-RS", S("sr")>>, <<"sv-SE", S("sv-SE")>>, <<"sw", S("sw")>>,
    <<"ta-IN", S("ta-IN")>>, <<"te-IN", S("te-IN")>>, <<"th-TH", S("th")>>,
    <<"tr-TR", S("tr-TR")>>, <<"uk-UA", S("uk")>>, <<"ur", S("ur")>>,
    <<"vi-VN", S("vi")>>, <<"zh-HK", S("zh-HK")>>, <<"zh-Hans", S("zh-CN")>>,
    <<"zh-Hant", S("zh-TW")>>, <<"zu", S("zu")>>
  >>

(* App Store Connect code -> unified: the object literal as its own properties <<key, value>>,
   in insertion order *)
APP_STORE_TO_UNIFIED ==
  <<
    <<"en-US", S("en-US")>>, <<"en-AU", S("en-AU")>>,
    <<"en-CA", S("en-CA")>>, <<"en-GB", S("en-GB")>>, <<"ko", S("ko-KR")>>,
    <<"ja", S("ja-JP")>>, <<"zh-Hans", S("zh-Hans")>>,
    <<"zh-Hant", S("zh-Hant")>>, <<"fr-FR", S("fr-FR")>>,
    <<"fr-CA", S("fr-CA")>>, <<"de-DE", S("de-DE")>>, <<"it", S("it-IT")>>,
    <<"es-ES", S("es-ES")>>, <<"es-MX", S("es-419")>>,
    <<"pt-BR", S("pt-BR")>>, <<"pt-PT", S("pt-PT")>>, <<"ru", S("ru-RU")>>,
    <<"ar-SA", S("ar")>>, <<"nl-NL", S("nl-NL")>>, <<"sv", S("sv-SE")>>,
    <<"da", S("da-DK")>>, <<"no", S("no-NO")>>, <<"fi", S("fi-FI")>>,
    <<"pl", S("pl-PL")>>, <<"tr", S("tr-TR")>>, <<"vi", S("vi-VN")>>,
    <<"th", S("th-TH")>>, <<"id", S("id-ID")>>, <<"ms", S("ms-MY")>>,
    <<"hi", S("hi-IN")>>, <<"cs", S("cs-CZ")>>, <<"sk", S("sk-SK")>>,
    <<"hu", S("hu-HU")>>, <<"ro", S("ro-RO")>>, <<"uk", S("uk-UA")>>,
    <<"he", S("he-IL")>>, <<"el", S("el-GR")>>, <<"ca", S("ca-ES")>>,
    <<"hr", S("hr-HR")>>
  >>

(* Google Play Console code -> unified, aliases included: the object literal as its own properties <<key, value>>,
   in insertion order *)
GOOGLE_PLAY_TO_UNIFIED ==
  <<
    <<"af", S("af")>>, <<"am", S("am")>>, <<"ar", S("ar")>>,
    <<"az-AZ", S("az-AZ")>>, <<"be", S("be")>>, <<"bg", S("bg-BG")>>,
    <<"bn-BD", S("bn-BD")>>, <<"ca", S("ca-ES")>>, <<"cs-CZ", S("cs-CZ")>>,
    <<"cs", S("cs-CZ")>>, <<"da-DK", S("da-DK")>>, <<"da", S("da-DK")>>,
    <<"de-DE", S("de-DE")>>, <<"de", S("de-DE")>>, <<"el-GR", S("el-GR")>>,
    <<"el", S("el-GR")>>, <<"en-AU", S("en-AU")>>, <<"en-CA", S("en-CA")>>,
    <<"en-GB", S("en-GB")>>, <<"en-IN", S("en-IN")>>,
    <<"en-SG", S("en-SG")>>, <<"en-US", S("en-US")>>,
    <<"en-ZA", S("en-ZA")>>, <<"es-419", S("es-419")>>,
    <<"es-ES", S("es-ES")>>, <<"es", S("es-ES")>>, <<"es-US", S("es-US")>>,
    <<"et", S("et-EE")>>, <<"et-EE", S("et-EE")>>, <<"eu-ES", S("eu-ES")>>,
    <<"fa", S("fa")>>, <<"fa-AE", S("fa-AE")>>, <<"fa-AF", S("fa-AF")>>,
    <<"fa-IR", S("fa-IR")>>, <<"fi-FI", S("fi-FI")>>, <<"fi", S("fi-FI")>>,
    <<"fil", S("fil")>>, <<"fr-FR", S("fr-FR")>>, <<"fr", S("fr-FR")>>,
    <<"fr-CA", S("fr-CA")>>, <<"gl-ES", S("gl-ES")>>, <<"gu", S("gu")>>,
    <<"iw-IL", S("he-IL")>>, <<"he-IL", S("he-IL")>>, <<"he", S("he-IL")>>,
    <<"hi-IN", S("hi-IN")>>, <<"hi", S("hi-IN")>>, <<"hr", S("hr-HR")>>,
    <<"hu-HU", S("hu-HU")>>, <<"hu", S("hu-HU")>>, <<"hy-AM", S("hy-AM")>>,
    <<"id", S("id-ID")>>, <<"in", S("id-ID")>>, <<"is-IS", S("is-IS")>>,
    <<"it-IT", S("it-IT")>>, <<"it", S("it-IT")>>, <<"ja-JP", S("ja-JP")>>,
    <<"ja", S("ja-JP")>>, <<"ka-GE", S("ka-GE")>>, <<"kk", S("kk")>>,
    <<"km-KH", S("km-KH")>>, <<"kn-IN", S("kn-IN")>>,
    <<"ko-KR", S("ko-KR")>>, <<"ko", S("ko-KR")>>, <<"ky-KG", S("ky-KG")>>,
    <<"lo-LA", S("lo-LA")>>, <<"lt", S("lt-LT")>>, <<"lt-LT", S("lt-LT")>>,
    <<"lv", S("lv-LV")>>, <<"lv-LV", S("lv-LV")>>, <<"mk-MK", S("mk-MK")>>,
    <<"ml-IN", S("ml-IN")>>, <<"mn-MN", S("mn-MN")>>,
    <<"mr-IN", S("mr-IN")>>, <<"ms", S("ms")>>, <<"ms-MY", S("ms-MY")>>,
    <<"my-MM", S("my-MM")>>, <<"ne-NP", S("ne-NP")>>,
    <<"nl-NL", S("nl-NL")>>, <<"nl", S("nl-NL")>>, <<"no-NO", S("no-NO")>>,
    <<"no", S("no-NO")>>, <<"pa", S("pa")>>, <<"pl-PL", S("pl-PL")>>,
    <<"pl", S("pl-PL")>>, <<"pt-BR", S("pt-BR")>>, <<"pt-PT", S("pt-PT")>>,
    <<"rm", S("rm")>>, <<"ro", S("ro-RO")>>, <<"ru-RU", S("ru-RU")>>,
    <<"ru", S("ru-RU")>>, <<"si-LK", S("si-LK")>>, <<"sk", S("sk-SK")>>,
    <<"sl-SI", S("sl-SI")>>, <<"sl", S("sl-SI")>>, <<"sq", S("sq")>>,
    <<"sr", S("sr-RS")>>, <<"sv-SE", S("sv-SE")>>, <<"sv", S("sv-SE")>>,
    <<"sw", S("sw")>>, <<"ta-IN", S("ta-IN")>>, <<"te-IN", S("te-IN")>>,
    <<"th", S("th-TH")>>, <<"tr-TR", S("tr-TR")>>, <<"tr", S("tr-TR")>>,
    <<"uk", S("uk-UA")>>, <<"ur", S("ur")>>, <<"vi", S("vi-VN")>>,
    <<"zh-HK", S("zh-HK")>>, <<"zh-CN", S("zh-Hans")>>,
    <<"zh-TW", S("zh-Hant")>>, <<"zu", S("zu")>>
  >>

(* Default locale (for fallback) *)
DEFAULT_LOCALE == "en-US"

(***************************************************************************)
(* Supported locales by platform (constants/unified-locales.ts)            *)
(***************************************************************************)
(* the filter with the test "!== undefined" in place of "!== null" *)
APP_STORE_SUPPORTED_LOCALES_undefinedTest ==
  SelectSeq(UNIFIED_LOCALES, LAMBDA locale :
    Get(UNIFIED_TO_APP_STORE, S(locale)) # Undefined)

APP_STORE_SUPPORTED_LOCALES ==
  SelectSeq(UNIFIED_LOCALES, LAMBDA locale :
    Get(UNIFIED_TO_APP_STORE, S(locale)) # Null)

(* the filter reading the App Store table *)
GOOGLE_PLAY_SUPPORTED_LOCALES_appStoreTable ==
  SelectSeq(UNIFIED_LOCALES, LAMBDA locale :
    Get(UNIFIED_TO_APP_STORE, S(locale)) # Null)

GOOGLE_PLAY_SUPPORTED_LOCALES ==
  SelectSeq(UNIFIED_LOCALES, LAMBDA locale :
    Get(UNIFIED_TO_GOOGLE_PLAY, S(locale)) # Null)

(* the filter with "||" in place of "&&" *)
COMMON_SUPPORTED_LOCALES_either ==
  SelectSeq(UNIFIED_LOCALES, LAMBDA locale :
    \/ Get(UNIFIED_TO_APP_STORE, S(locale)) # Null
    \/ Get(UNIFIED_TO_GOOGLE_PLAY, S(locale)) # Null)

COMMON_SUPPORTED_LOCALES ==
  SelectSeq(UNIFIED_LOCALES, LAMBDA locale :
    /\ Get(UNIFIED_TO_APP_STORE, S(locale)) # Null
    /\ Get(UNIFIED_TO_GOOGLE_PLAY, S(locale)) # Null)

(***************************************************************************)
(* Reverse lookups of constants/unified-locales.ts: throw on a code the    *)
(* table does not answer for.                                              *)
(***************************************************************************)
constants_appStoreToUnified(appStoreLocale) ==
  LET unified == Get(APP_STORE_TO_UNIFIED, appStoreLocale)
  IN  IF Falsy(unified)
        THEN Throw(<<"Unknown ", "App Store", " locale: ",
                     ToPropertyKey(appStoreLocale)>>)
        ELSE unified

constants_googlePlayToUnified(googlePlayLocale) ==
  LET unified == Get(GOOGLE_PLAY_TO_UNIFIED, googlePlayLocale)
  IN  IF Falsy(unified)
        THEN Throw(<<"Unknown ", "Google Play", " locale: ",
                     ToPropertyKey(googlePlayLocale)>>)
        ELSE unified

(***************************************************************************)
(* Conversion facade (utils/locale-converter.ts)                           *)
(***************************************************************************)
(* the forward lookup falling back to the default locale, as the reverse
   lookups of this module do *)
unifiedToAppStore_defaulting(locale) ==
  Coalesce(Get(UNIFIED_TO_APP_STORE, locale), S(DEFAULT_LOCALE))

unifiedToAppStore(locale) == Get(UNIFIED_TO_APP_STORE, locale)

(* the forward lookup reading the other store's table *)
unifiedToGooglePlay_appStoreTable(locale) == Get(UNIFIED_TO_APP_STORE, locale)

unifiedToGooglePlay(locale) == Get(UNIFIED_TO_GOOGLE_PLAY, locale)

(* the reverse lookup reading the other store's table *)
appStoreToUnified_googlePlayTable(locale) ==
  Coalesce(Get(GOOGLE_PLAY_TO_UNIFIED, locale), S(DEFAULT_LOCALE))

appStoreToUnified(locale) ==
  Coalesce(Get(APP_STORE_TO_UNIFIED, locale), S(DEFAULT_LOCALE))

(* the reverse lookup reading the other store's table *)
googlePlayToUnified_appStoreTable(locale) ==
  Coalesce(Get(APP_STORE_TO_UNIFIED, locale), S(DEFAULT_LOCALE))

googlePlayToUnified(locale) ==
  Coalesce(Get(GOOGLE_PLAY_TO_UNIFIED, locale), S(DEFAULT_LOCALE))

(* the pivot ending in the source store's forward lookup *)
appStoreToGooglePlay_sameStore(locale) ==
  LET unified == appStoreToUnified(locale)
  IN  unifiedToAppStore(unified)

appStoreToGooglePlay(locale) ==
  LET unified == appStoreToUnified(locale)
  IN  unifiedToGooglePlay(unified)

(* the pivot without its reverse lookup: the Google Play code is handed to
   the forward table as if it were a unified code *)
googlePlayToAppStore_noPivot(locale) == unifiedToAppStore(locale)

googlePlayToAppStore(locale) ==
  LET unified == googlePlayToUnified(locale)
  IN  unifiedToAppStore(unified)

(* { appStore: unifiedToAppStore(locale),
     googlePlay: unifiedToGooglePlay(locale) } *)
unifiedToBothPlatforms(locale) ==
  Obj(<< <<"appStore", unifiedToAppStore(locale)>>,
         <<"googlePlay", unifiedToGooglePlay(locale)>> >>)

(* the batch conversion without its filter *)
unifiedToAppStoreBatch_unfiltered(locales) ==
  Arr([i \in 1..Len(locales) |-> unifiedToAppStore(locales[i])])

(* locales.map(unifiedToAppStore).filter(locale => locale !== null) *)
unifiedToAppStoreBatch(locales) ==
  LET mapped == [i \in 1..Len(locales) |-> unifiedToAppStore(locales[i])]
  IN  Arr(SelectSeq(mapped, LAMBDA locale : locale # Null))

unifiedToGooglePlayBatch(locales) ==
  LET mapped == [i \in 1..Len(locales) |-> unifiedToGooglePlay(locales[i])]
  IN  Arr(SelectSeq(mapped, LAMBDA locale : locale # Null))

(* locales.map(appStoreToUnified) *)
appStoreToUnifiedBatch(locales) ==
  Arr([i \in 1..Len(locales) |-> appStoreToUnified(locales[i])])

googlePlayToUnifiedBatch(locales) ==
  Arr([i \in 1..Len(locales) |-> googlePlayToUnified(locales[i])])

(* result[key] = value on an object given as its own properties: an owned
   key keeps its place, a new key is added last *)
SetProp(result, key, value) ==
  LET k == ToPropertyKey(key)
      own == {i \in 1..Len(result) : result[i][1] = k}
  IN  IF own # {}
        THEN [result EXCEPT ![CHOOSE i \in own : TRUE] = <<k, value>>]
        ELSE Append(result, <<k, value>>)

(* the loop of convertObjectToAppStore over Object.entries(data), from
   entry i on *)
RECURSIVE ToAppStoreLoop(_, _, _)
ToAppStoreLoop(data, i, result) ==
  IF i > Len(data) THEN result
  ELSE LET appStoreLocale == unifiedToAppStore(S(data[i][1]))
       IN  ToAppStoreLoop(data, i + 1,
             IF appStoreLocale # Null
               THEN SetProp(result, appStoreLocale, data[i][2])
               ELSE result)

RECURSIVE ToGooglePlayLoop(_, _, _)
ToGooglePlayLoop(data, i, result) ==
  IF i > Len(data) THEN result
  ELSE LET googlePlayLocale == unifiedToGooglePlay(S(data[i][1]))
       IN  ToGooglePlayLoop(data, i + 1,
             IF googlePlayLocale # Null
               THEN SetProp(result, googlePlayLocale, data[i][2])
               ELSE result)

(* the keyed conversion running the other store's loop *)
convertObjectToAppStore_googlePlayKeys(data) ==
  Obj(ToGooglePlayLoop(data, 1, <<>>))

convertObjectToAppStore(data) == Obj(ToAppStoreLoop(data, 1, <<>>))

convertObjectToGooglePlay(data) == Obj(ToGooglePlayLoop(data, 1, <<>>))


(* the loop of convertObjectFromAppStore over Object.entries(data), from
   entry i on: every entry is stored, under the unified code of its key *)
RECURSIVE FromAppStoreLoop(_, _, _)
FromAppStoreLoop(data, i, result) ==
  IF i > Len(data) THEN result
  ELSE LET unifiedLocale == appStoreToUnified(S(data[i][1]))
       IN  FromAppStoreLoop(data, i + 1,
             SetProp(result, unifiedLocale, data[i][2]))

convertObjectFromAppStore(data) == Obj(FromAppStoreLoop(data, 1, <<>>))

RECURSIVE FromGooglePlayLoop(_, _, _)
FromGooglePlayLoop(data, i, result) ==
  IF i > Len(data) THEN result
  ELSE LET unifiedLocale == googlePlayToUnified(S(data[i][1]))
       IN  FromGooglePlayLoop(data, i + 1,
             SetProp(result, unifiedLocale, data[i][2]))

convertObjectFromGooglePlay(data) == Obj(FromGooglePlayLoop(data, 1, <<>>))

(***************************************************************************)
(* Push pipeline (tools/utils/public-to-aso/prepare-aso-data-for-push,     *)
(* tools/public-to-aso.ts).  Store data is either multilingual, a record   *)
(* with the fields locales and defaultLocale, or the data of one locale.   *)
(* The data of a locale is cut down to its title and whether it has        *)
(* screenshots.                                                            *)
(***************************************************************************)
(* v || d *)
Or(v, d) == IF Falsy(v) THEN d ELSE v

(* "locales" in data *)
IsMultilingual(data) == "locales" \in DOMAIN data

(* `${baseUrl}/${slug}` with NEXT_PUBLIC_SITE_URL unset *)
DetailPageUrl(slug) == "https://labs.quartz.best/" \o slug

(* the loop over Object.entries(cleanedLocales) converting unified keys to
   Google Play keys, from entry i on *)
RECURSIVE GooglePlayPushLoop(_, _, _, _)
GooglePlayPushLoop(cleanedLocales, i, convertedLocales, url) ==
  IF i > Len(cleanedLocales) THEN convertedLocales
  ELSE LET googlePlayLocale == unifiedToGooglePlay(S(cleanedLocales[i][1]))
           localeData == cleanedLocales[i][2]
       IN  GooglePlayPushLoop(cleanedLocales, i + 1,
             IF googlePlayLocale # Null
               THEN SetProp(convertedLocales, googlePlayLocale,
                      [title |-> localeData.title,
                       contactWebsite |-> url,
                       defaultLanguage |-> googlePlayLocale])
               ELSE convertedLocales,
             url)

RECURSIVE AppStorePushLoop(_, _, _, _)
AppStorePushLoop(cleanedLocales, i, convertedLocales, url) ==
  IF i > Len(cleanedLocales) THEN convertedLocales
  ELSE LET appStoreLocale == unifiedToAppStore(S(cleanedLocales[i][1]))
           localeData == cleanedLocales[i][2]
       IN  AppStorePushLoop(cleanedLocales, i + 1,
             IF appStoreLocale # Null
               THEN SetProp(convertedLocales, appStoreLocale,
                      [title |-> localeData.title,
                       marketingUrl |-> url,
                       locale |-> appStoreLocale])
               ELSE convertedLocales,
             url)

(* the googlePlay block of prepareAsoDataForPush *)
PrepareGooglePlay(googlePlayData, url) ==
  LET locales ==
        IF IsMultilingual(googlePlayData)
          THEN googlePlayData.locales
          ELSE << <<ToPropertyKey(Or(googlePlayData.defaultLanguage,
                                     S(DEFAULT_LOCALE))),
                    googlePlayData>> >>
      googleDefaultLocale ==
        IF IsMultilingual(googlePlayData)
          THEN Or(googlePlayData.defaultLocale, S(DEFAULT_LOCALE))
          ELSE Or(googlePlayData.defaultLanguage, S(DEFAULT_LOCALE))
  IN  [locales |-> GooglePlayPushLoop(locales, 1, <<>>, url),
       defaultLocale |->
         Or(unifiedToGooglePlay(googleDefaultLocale), googleDefaultLocale)]

(* the appStore block of prepareAsoDataForPush *)
PrepareAppStore(appStoreData, url) ==
  LET locales ==
        IF IsMultilingual(appStoreData)
          THEN appStoreData.locales
          ELSE << <<ToPropertyKey(Or(appStoreData.locale,
                                     S(DEFAULT_LOCALE))),
                    appStoreData>> >>
      appStoreDefaultLocale ==
        IF IsMultilingual(appStoreData)
          THEN Or(appStoreData.defaultLocale, S(DEFAULT_LOCALE))
          ELSE Or(appStoreData.locale, S(DEFAULT_LOCALE))
  IN  [locales |-> AppStorePushLoop(locales, 1, <<>>, url),
       defaultLocale |->
         Or(unifiedToAppStore(appStoreDefaultLocale), appStoreDefaultLocale)]

(* storeData: a store that configData lacks stays undefined *)
prepareAsoDataForPush(slug, configData) ==
  [kind |-> "object",
   googlePlay |->
     IF configData.googlePlay # Undefined
       THEN PrepareGooglePlay(configData.googlePlay, DetailPageUrl(slug))
       ELSE Undefined,
   appStore |->
     IF configData.appStore # Undefined
       THEN PrepareAppStore(configData.appStore, DetailPageUrl(slug))
       ELSE Undefined]

(* the screenshot directories downloadScreenshotsToAsoDir fills for one
   store: one per locale that has screenshots and whose forward code is
   truthy; table is the store's forward table *)
ScreenshotDirs(store, locales, table) ==
  {<<store, "screenshots", Get(table, S(locales[i][1])).val>> :
     i \in {j \in 1..Len(locales) :
              /\ ~Falsy(Get(table, S(locales[j][1])))
              /\ locales[j][2].screenshots}}

downloadScreenshotsToAsoDir(asoData) ==
  (IF asoData.googlePlay # Undefined
     THEN ScreenshotDirs("google-play", asoData.googlePlay.locales,
                         UNIFIED_TO_GOOGLE_PLAY)
     ELSE {})
  \cup
  (IF asoData.appStore # Undefined
     THEN ScreenshotDirs("app-store", asoData.appStore.locales,
                         UNIFIED_TO_APP_STORE)
     ELSE {})

(***************************************************************************)
(* The public-to-aso tool (tools/public-to-aso.ts).  A file of the push     *)
(* data directory is named by its path below products/[slug]/store.        *)
(***************************************************************************)
(* Object.keys(locales).length for store data as prepareAsoDataForPush
   returns it, undefined for a store that is absent *)
LocaleCount(storeData) ==
  IF storeData # Undefined THEN Len(storeData.locales) ELSE 0

(* saveAsoToAsoDir: one aso-data.json per store present *)
saveAsoToAsoDir(asoData) ==
  (IF asoData.googlePlay # Undefined
     THEN {<<"google-play", "aso-data.json">>} ELSE {})
  \cup
  (IF asoData.appStore # Undefined
     THEN {<<"app-store", "aso-data.json">>} ELSE {})

(* the console.log records of saveRawAsoData *)
SaveRawAsoDataLog(asoData) ==
  (IF LocaleCount(asoData.googlePlay) # 0
     THEN << <<"Google Play raw data saved to ", ".aso/pushData",
               LocaleCount(asoData.googlePlay)>> >>
     ELSE <<>>)
  \o
  (IF LocaleCount(asoData.appStore) # 0
     THEN << <<"App Store raw data saved to ", ".aso/pushData",
               LocaleCount(asoData.appStore)>> >>
     ELSE <<>>)

(* JSON.stringify(storeData, null, 2): a property whose value is undefined
   is left out *)
JsonStringify(storeData) ==
  [st \in {x \in {"googlePlay", "appStore"} : storeData[x] # Undefined}
     |-> storeData[st]]

(* if (dryRun) with its negation dropped: the handler saves in preview
   mode too *)
PublicToAsoSaves_ignoringDryRun(dryRun) == TRUE

(* the handler goes past "if (dryRun) return" *)
PublicToAsoSaves(dryRun) == Falsy(dryRun)

(* what handlePublicToAso returns (or throws) for the data
   loadAsoFromConfig gave it *)
handlePublicToAso(slug, dryRun, configData) ==
  LET storeData == prepareAsoDataForPush(slug, configData)
  IN  IF configData.googlePlay = Undefined /\ configData.appStore = Undefined
        THEN Throw(<<"No ASO data found in config.json + locales/ for ",
                     slug>>)
      ELSE IF ~PublicToAsoSaves(dryRun)
        THEN [kind |-> "content",
              text |-> <<"Preview mode - Data that would be saved to .aso/pushData:",
                         JsonStringify(storeData)>>]
      ELSE [kind |-> "content",
            text |-> <<slug, " .aso/pushData files prepared",
                       LocaleCount(storeData.googlePlay),
                       LocaleCount(storeData.appStore)>>]

(* the files handlePublicToAso writes below the push data directory *)
PublicToAsoWrites(slug, dryRun, configData) ==
  IF configData.googlePlay = Undefined /\ configData.appStore = Undefined
    THEN {}
  ELSE IF ~PublicToAsoSaves(dryRun) THEN {}
  ELSE saveAsoToAsoDir(prepareAsoDataForPush(slug, configData))
         \cup downloadScreenshotsToAsoDir(configData)

(* the records handlePublicToAso writes to the console *)
PublicToAsoLog(slug, dryRun, configData) ==
  IF configData.googlePlay = Undefined /\ configData.appStore = Undefined
    THEN <<>>
  ELSE IF ~PublicToAsoSaves(dryRun) THEN <<>>
  ELSE SaveRawAsoDataLog(prepareAsoDataForPush(slug, configData))

(***************************************************************************)
(* The aso-to-public tool (tools/aso-to-public.ts).  It imports the        *)
(* throwing reverse lookups of constants/unified-locales.  The Map of      *)
(* merged data is a sequence of <<unified locale, merged data>> in         *)
(* insertion order; the data of a locale is cut down to its title (Google  *)
(* Play) or name (App Store).                                              *)
(***************************************************************************)
(* the locales of pull data of one store as a list of entries; own is the
   field naming the locale of single-locale data *)
PullLocales(data, own) ==
  IF IsMultilingual(data) THEN data.locales
  ELSE << <<ToPropertyKey(Or(data[own], S(DEFAULT_LOCALE))), data>> >>

(* mergedDataByLocale.has(unifiedLocale) / the index of its entry *)
MapIndex(merged, unifiedLocale) ==
  {i \in 1..Len(merged) : merged[i][1] = unifiedLocale}

(* the entry created without the test mergedDataByLocale.has *)
MapEnsure_alwaysNew(merged, unifiedLocale) ==
  Append(merged,
    <<unifiedLocale,
      [unifiedLocale |-> unifiedLocale,
       googlePlay |-> Undefined, appStore |-> Undefined]>>)

(* the entry of unifiedLocale, created when the map has none *)
MapEnsure(merged, unifiedLocale) ==
  IF MapIndex(merged, unifiedLocale) # {} THEN merged
  ELSE Append(merged,
         <<unifiedLocale,
           [unifiedLocale |-> unifiedLocale,
            googlePlay |-> Undefined, appStore |-> Undefined]>>)

(* the loop over the Google Play locales, from entry i on *)
RECURSIVE MergeGooglePlay(_, _, _)
MergeGooglePlay(locales, i, merged) ==
  IF i > Len(locales) THEN merged
  ELSE LET unifiedLocale == constants_googlePlayToUnified(S(locales[i][1]))
           ensured == MapEnsure(merged, unifiedLocale)
           at == CHOOSE j \in MapIndex(ensured, unifiedLocale) : TRUE
       IN  MergeGooglePlay(locales, i + 1,
             [ensured EXCEPT ![at][2].googlePlay =
                               [title |-> locales[i][2].title]])

(* the loop over the App Store locales, from entry i on *)
RECURSIVE MergeAppStore(_, _, _)
MergeAppStore(locales, i, merged) ==
  IF i > Len(locales) THEN merged
  ELSE LET unifiedLocale == constants_appStoreToUnified(S(locales[i][1]))
           ensured == MapEnsure(merged, unifiedLocale)
           at == CHOOSE j \in MapIndex(ensured, unifiedLocale) : TRUE
       IN  MergeAppStore(locales, i + 1,
             [ensured EXCEPT ![at][2].appStore =
                               [name |-> locales[i][2].name]])

(* Object.keys(locales).find((loc) => rev(loc) === unifiedLocale); rev
   threw on none of the keys when the map was built *)
FindGooglePlayLocale(locales, unifiedLocale) ==
  LET found == {i \in 1..Len(locales) :
                  constants_googlePlayToUnified(S(locales[i][1]))
                    = unifiedLocale}
  IN  IF found = {} THEN Undefined
      ELSE S(locales[CHOOSE i \in found : \A j \in found : i <= j][1])

FindAppStoreLocale(locales, unifiedLocale) ==
  LET found == {i \in 1..Len(locales) :
                  constants_appStoreToUnified(S(locales[i][1]))
                    = unifiedLocale}
  IN  IF found = {} THEN Undefined
      ELSE S(locales[CHOOSE i \in found : \A j \in found : i <= j][1])

(* sources of a task *)
Sources(mergedData) ==
  (IF mergedData.googlePlay # Undefined THEN <<"Google Play">> ELSE <<>>)
    \o (IF mergedData.appStore # Undefined THEN <<"App Store">> ELSE <<>>)

(* the screenshot directory of a store and platform locale, or undefined *)
ScreenshotPath(slug, store, platformLocale) ==
  IF Falsy(platformLocale) THEN Undefined
  ELSE [kind |-> "path",
        val |-> <<"products", slug, "store", store, "screenshots",
                  platformLocale.val>>]

(* one conversion task; the prompt is given by the arguments of
   generateConversionPrompt *)
ConversionTask(slug, asoData, mergedData) ==
  [locale |-> mergedData.unifiedLocale,
   sources |-> Sources(mergedData),
   prompt |->
     [googlePlay |-> mergedData.googlePlay,
      appStore |-> mergedData.appStore,
      screenshotPaths |->
        [googlePlay |->
           IF mergedData.googlePlay # Undefined
             THEN ScreenshotPath(slug, "google-play",
                    FindGooglePlayLocale(
                      PullLocales(asoData.googlePlay, "defaultLanguage"),
                      mergedData.unifiedLocale))
             ELSE Undefined,
         appStore |->
           IF mergedData.appStore # Undefined
             THEN ScreenshotPath(slug, "app-store",
                    FindAppStoreLocale(
                      PullLocales(asoData.appStore, "locale"),
                      mergedData.unifiedLocale))
             ELSE Undefined]]]

(* the codes on which a throwing reverse lookup throws, as it meets them *)
ThrowsOn(locales, table) ==
  {i \in 1..Len(locales) : Falsy(Get(table, S(locales[i][1])))}

handleAsoToPublic(slug, asoData) ==
  LET googlePlayLocales ==
        IF asoData.googlePlay # Undefined
          THEN PullLocales(asoData.googlePlay, "defaultLanguage") ELSE <<>>
      appStoreLocales ==
        IF asoData.appStore # Undefined
          THEN PullLocales(asoData.appStore, "locale") ELSE <<>>
      googlePlayThrows == ThrowsOn(googlePlayLocales, GOOGLE_PLAY_TO_UNIFIED)
      appStoreThrows == ThrowsOn(appStoreLocales, APP_STORE_TO_UNIFIED)
      mergedDataByLocale ==
        MergeAppStore(appStoreLocales, 1,
          MergeGooglePlay(googlePlayLocales, 1, <<>>))
  IN  IF asoData.googlePlay = Undefined /\ asoData.appStore = Undefined
        THEN Throw(<<"No ASO data found in pullData for ", slug>>)
      ELSE IF googlePlayThrows # {}
        THEN constants_googlePlayToUnified(
               S(googlePlayLocales[CHOOSE i \in googlePlayThrows :
                                     \A j \in googlePlayThrows : i <= j][1]))
      ELSE IF appStoreThrows # {}
        THEN constants_appStoreToUnified(
               S(appStoreLocales[CHOOSE i \in appStoreThrows :
                                   \A j \in appStoreThrows : i <= j][1]))
      ELSE [kind |-> "content",
            conversionTasks |->
              [i \in 1..Len(mergedDataByLocale) |->
                 ConversionTask(slug, asoData, mergedDataByLocale[i][2])]]

(***************************************************************************)
(* Inputs                                                                  *)
(***************************************************************************)
(* strings that are neither catalog members nor keys of a reverse table:
   a well-formed foreign tag, a catalog code in the wrong case, and a
   name inherited from Object.prototype *)
OtherCodes == {"xx-XX", "en-us", "constructor"}

Codes ==
  Elems(UNIFIED_LOCALES) \cup Keys(APP_STORE_TO_UNIFIED)
    \cup Keys(GOOGLE_PLAY_TO_UNIFIED) \cup OtherCodes

(* codes that lists and keyed collections are built from *)
BatchCodes ==
  {"ar", "en-IN", "zh-Hans", "es-419", "ar-SA", "id", "in", "xx-XX"}

(* values stored in keyed collections *)
Values == {"v1", "v2"}

(* longest list or keyed collection passed to a batch or keyed conversion *)
MaxBatch == 2

(* how many earlier calls a call's argument may have been piped through *)
MaxChain == 1

Lists == UNION {[1..n -> BatchCodes] : n \in 0..MaxBatch}

(* keyed collections: own properties with pairwise distinct keys *)
Records ==
  {[i \in 1..Len(ks) |-> <<ks[i], S(vs[i])>>] :
     <<ks, vs>> \in UNION {
       {l \in [1..n -> BatchCodes] : \A i, j \in 1..n : l[i] = l[j] => i = j}
         \X [1..n -> Values] : n \in 0..MaxBatch}}

(* locale keys of the store data handed to the push pipeline: carried by
   both stores, by Google Play only, renamed by Google Play, and outside
   the catalog *)
PushCodes == {"ar", "en-IN", "zh-Hans", "xx-XX"}

(* most locales in the store data of one store *)
MaxPushLocales == 2

(* product slugs *)
Slugs == {"app"}

PushKeyLists ==
  UNION {{l \in [1..n -> PushCodes] : \A i, j \in 1..n : l[i] = l[j] => i = j}
           : n \in 0..MaxPushLocales}

(* multilingual store data, every locale with screenshots, and the data of
   a single locale *)
MultilingualInputs ==
  {[locales |-> [i \in 1..Len(l) |->
                   <<l[i], [title |-> "t1", screenshots |-> TRUE]>>],
    defaultLocale |-> d] :
     l \in PushKeyLists, d \in {Undefined} \cup {S(c) : c \in PushCodes}}

GooglePlayInputs ==
  MultilingualInputs \cup
  {[title |-> "t1", screenshots |-> TRUE, defaultLanguage |-> d] :
     d \in {Undefined} \cup {S(c) : c \in PushCodes}}

AppStoreInputs ==
  MultilingualInputs \cup
  {[title |-> "t1", screenshots |-> TRUE, locale |-> d] :
     d \in {Undefined} \cup {S(c) : c \in PushCodes}}

(* AsoData with one store, or with both stores holding the same
   multilingual data *)
PushConfigs ==
  {[googlePlay |-> g, appStore |-> Undefined] : g \in GooglePlayInputs}
    \cup {[googlePlay |-> Undefined, appStore |-> a] : a \in AppStoreInputs}
    \cup {[googlePlay |-> m, appStore |-> m] : m \in MultilingualInputs}

(* multilingual AsoData whose locales may lack screenshots *)
ScreenshotInputs ==
  UNION {{[locales |-> [i \in 1..Len(l) |->
                          <<l[i], [title |-> "t1", screenshots |-> has[i]]>>]]
            : has \in [1..Len(l) -> BOOLEAN]} : l \in PushKeyLists}

DownloadConfigs ==
  {[googlePlay |-> g, appStore |-> Undefined] : g \in ScreenshotInputs}
    \cup {[googlePlay |-> Undefined, appStore |-> a] : a \in ScreenshotInputs}
    \cup {[googlePlay |-> m, appStore |-> m] : m \in ScreenshotInputs}

(* data of one store as loadAsoFromConfig builds it: multilingual, at
   least one locale, every locale a catalog member the store carries, the
   default locale one of the locales *)
LoadedInputs(table) ==
  UNION {{[locales |-> [i \in 1..Len(l) |->
                          <<l[i], [title |-> "t1", screenshots |-> has[i]]>>],
           defaultLocale |-> S(l[d])]
            : has \in [1..Len(l) -> BOOLEAN], d \in 1..Len(l)}
           : l \in {k \in PushKeyLists :
                      /\ k # <<>>
                      /\ \A i \in 1..Len(k) :
                           /\ Includes(UNIFIED_LOCALES, k[i])
                           /\ Get(table, S(k[i])) # Null}}

(* what loadAsoFromConfig returns: the stores it found data for, possibly
   none *)
LoadedConfigs ==
  {[googlePlay |-> g, appStore |-> a] :
     g \in {Undefined} \cup LoadedInputs(UNIFIED_TO_GOOGLE_PLAY),
     a \in {Undefined} \cup LoadedInputs(UNIFIED_TO_APP_STORE)}

(* dryRun is optional and false by default *)
DryRuns == {Bool(TRUE), Bool(FALSE)}

(* platform locale keys of pull data: a Google Play code and its alias
   ("id", "in"; the App Store knows only "id"), a code the two stores
   resolve differently ("ms"), and an App Store code Google Play does not
   know ("ar-SA") *)
PullCodes == {"id", "in", "ms", "ar-SA"}

(* most locales in the pull data of one store *)
MaxPullLocales == 2

PullKeyLists ==
  UNION {{l \in [1..n -> PullCodes] : \A i, j \in 1..n : l[i] = l[j] => i = j}
           : n \in 0..MaxPullLocales}

(* pull data of Google Play: multilingual, or the data of one locale;
   every locale has a text of its own *)
GooglePlayPullInputs ==
  {[locales |-> [i \in 1..Len(l) |-> <<l[i], [title |-> "title " \o l[i]]>>],
    defaultLocale |-> Undefined] : l \in PullKeyLists}
    \cup {[title |-> "title", defaultLanguage |-> d] :
            d \in {Undefined} \cup {S(c) : c \in PullCodes}}

AppStorePullInputs ==
  {[locales |-> [i \in 1..Len(l) |-> <<l[i], [name |-> "name " \o l[i]]>>],
    defaultLocale |-> Undefined] : l \in PullKeyLists}
    \cup {[name |-> "name", locale |-> d] :
            d \in {Undefined} \cup {S(c) : c \in PullCodes}}

(* what loadPullData returns: the stores it found a file for *)
PullConfigs ==
  {[googlePlay |-> g, appStore |-> a] :
     g \in {Undefined} \cup GooglePlayPullInputs,
     a \in {Undefined} \cup AppStorePullInputs}

(***************************************************************************)
(* State                                                                   *)
(***************************************************************************)
VARIABLES
  op,                   \* the facade operation called last
  arg,                  \* its argument
  ret,                  \* its outcome: the value returned or the error thrown
  chain,                \* the calls whose result was passed on to this one
  appStoreSupported,    \* the array APP_STORE_SUPPORTED_LOCALES
  googlePlaySupported,  \* the array GOOGLE_PLAY_SUPPORTED_LOCALES
  commonSupported,      \* the array COMMON_SUPPORTED_LOCALES
  logged,               \* the records the last call wrote to the console
  written               \* the screenshot directories the last call wrote

vars ==
  <<op, arg, ret, chain, appStoreSupported, googlePlaySupported,
    commonSupported, logged, written>>

supported == <<appStoreSupported, googlePlaySupported, commonSupported>>

(* what a call leaves behind outside its return value *)
effects == <<logged, written>>

(***************************************************************************)
(* Type guards (types/aso/aso.types.ts)                                    *)
(***************************************************************************)
(* the guard also accepting the spellings a store's reverse table knows *)
isSupportedLocale_platformCodes(locale) ==
  Bool(\/ Includes(UNIFIED_LOCALES, locale.val)
       \/ locale.val \in Keys(APP_STORE_TO_UNIFIED)
       \/ locale.val \in Keys(GOOGLE_PLAY_TO_UNIFIED))

isSupportedLocale(locale) == Bool(Includes(UNIFIED_LOCALES, locale.val))

isAppStoreLocale(locale) == Bool(Includes(appStoreSupported, locale.val))

isGooglePlayLocale(locale) == Bool(Includes(googlePlaySupported, locale.val))

(***************************************************************************)
(* Module initialisation: the derived arrays are computed once.            *)
(***************************************************************************)
Init ==
  /\ op = "none"
  /\ arg = Undefined
  /\ ret = Undefined
  /\ chain = <<>>
  /\ appStoreSupported = APP_STORE_SUPPORTED_LOCALES
  /\ googlePlaySupported = GOOGLE_PLAY_SUPPORTED_LOCALES
  /\ commonSupported = COMMON_SUPPORTED_LOCALES
  /\ logged = <<>>
  /\ written = {}

(* who may call an operation on the string x: an idle caller or, when
   piped, the caller of the previous operation, on the string that
   operation returned *)
CanCall(x, piped) ==
  IF piped
    THEN /\ ret.kind = "string"
         /\ ret.val = x
         /\ Len(chain) < MaxChain
    ELSE op = "none"

(* the calls the argument of the next call has been piped through *)
Passed(piped) ==
  IF piped
    THEN Append(chain, [op |-> op, arg |-> arg, ret |-> ret])
    ELSE <<>>

UnifiedToAppStore ==
  \E x \in Codes, piped \in BOOLEAN :
    /\ CanCall(x, piped)
    /\ op' = "unifiedToAppStore"
    /\ arg' = S(x)
    /\ ret' = unifiedToAppStore(S(x))
    /\ chain' = Passed(piped)
    /\ UNCHANGED <<supported, effects>>

UnifiedToGooglePlay ==
  \E x \in Codes, piped \in BOOLEAN :
    /\ CanCall(x, piped)
    /\ op' = "unifiedToGooglePlay"
    /\ arg' = S(x)
    /\ ret' = unifiedToGooglePlay(S(x))
    /\ chain' = Passed(piped)
    /\ UNCHANGED <<supported, effects>>

AppStoreToUnified ==
  \E x \in Codes, piped \in BOOLEAN :
    /\ CanCall(x, piped)
    /\ op' = "appStoreToUnified"
    /\ arg' = S(x)
    /\ ret' = appStoreToUnified(S(x))
    /\ chain' = Passed(piped)
    /\ UNCHANGED <<supported, effects>>

GooglePlayToUnified ==
  \E x \in Codes, piped \in BOOLEAN :
    /\ CanCall(x, piped)
    /\ op' = "googlePlayToUnified"
    /\ arg' = S(x)
    /\ ret' = googlePlayToUnified(S(x))
    /\ chain' = Passed(piped)
    /\ UNCHANGED <<supported, effects>>

ConstantsAppStoreToUnified ==
  \E x \in Codes, piped \in BOOLEAN :
    /\ CanCall(x, piped)
    /\ op' = "constants.appStoreToUnified"
    /\ arg' = S(x)
    /\ ret' = constants_appStoreToUnified(S(x))
    /\ chain' = Passed(piped)
    /\ UNCHANGED <<supported, effects>>

ConstantsGooglePlayToUnified ==
  \E x \in Codes, piped \in BOOLEAN :
    /\ CanCall(x, piped)
    /\ op' = "constants.googlePlayToUnified"
    /\ arg' = S(x)
    /\ ret' = constants_googlePlayToUnified(S(x))
    /\ chain' = Passed(piped)
    /\ UNCHANGED <<supported, effects>>

AppStoreToGooglePlay ==
  \E x \in Codes, piped \in BOOLEAN :
    /\ CanCall(x, piped)
    /\ op' = "appStoreToGooglePlay"
    /\ arg' = S(x)
    /\ ret' = appStoreToGooglePlay(S(x))
    /\ chain' = Passed(piped)
    /\ UNCHANGED <<supported, effects>>

GooglePlayToAppStore ==
  \E x \in Codes, piped \in BOOLEAN :
    /\ CanCall(x, piped)
    /\ op' = "googlePlayToAppStore"
    /\ arg' = S(x)
    /\ ret' = googlePlayToAppStore(S(x))
    /\ chain' = Passed(piped)
    /\ UNCHANGED <<supported, effects>>

IsSupportedLocale ==
  \E x \in Codes, piped \in BOOLEAN :
    /\ CanCall(x, piped)
    /\ op' = "isSupportedLocale"
    /\ arg' = S(x)
    /\ ret' = isSupportedLocale(S(x))
    /\ chain' = Passed(piped)
    /\ UNCHANGED <<supported, effects>>

(* the guard searching its array destructively: the element it finds is
   taken out of APP_STORE_SUPPORTED_LOCALES *)
IsAppStoreLocale_consuming ==
  \E x \in Codes, piped \in BOOLEAN :
    /\ CanCall(x, piped)
    /\ op' = "isAppStoreLocale"
    /\ arg' = S(x)
    /\ ret' = isAppStoreLocale(S(x))
    /\ chain' = Passed(piped)
    /\ appStoreSupported' = SelectSeq(appStoreSupported, LAMBDA l : l # x)
    /\ UNCHANGED <<googlePlaySupported, commonSupported, effects>>

IsAppStoreLocale ==
  \E x \in Codes, piped \in BOOLEAN :
    /\ CanCall(x, piped)
    /\ op' = "isAppStoreLocale"
    /\ arg' = S(x)
    /\ ret' = isAppStoreLocale(S(x))
    /\ chain' = Passed(piped)
    /\ UNCHANGED <<supported, effects>>

IsGooglePlayLocale ==
  \E x \in Codes, piped \in BOOLEAN :
    /\ CanCall(x, piped)
    /\ op' = "isGooglePlayLocale"
    /\ arg' = S(x)
    /\ ret' = isGooglePlayLocale(S(x))
    /\ chain' = Passed(piped)
    /\ UNCHANGED <<supported, effects>>

UnifiedToAppStoreBatch ==
  \E l \in Lists :
    LET locales == [i \in 1..Len(l) |-> S(l[i])]
    IN  /\ op = "none"
        /\ op' = "unifiedToAppStoreBatch"
        /\ arg' = Arr(locales)
        /\ ret' = unifiedToAppStoreBatch(locales)
        /\ chain' = <<>>
        /\ UNCHANGED <<supported, effects>>

UnifiedToGooglePlayBatch ==
  \E l \in Lists :
    LET locales == [i \in 1..Len(l) |-> S(l[i])]
    IN  /\ op = "none"
        /\ op' = "unifiedToGooglePlayBatch"
        /\ arg' = Arr(locales)
        /\ ret' = unifiedToGooglePlayBatch(locales)
        /\ chain' = <<>>
        /\ UNCHANGED <<supported, effects>>

ConvertObjectToAppStore ==
  \E data \in Records :
    /\ op = "none"
    /\ op' = "convertObjectToAppStore"
    /\ arg' = Obj(data)
    /\ ret' = convertObjectToAppStore(data)
    /\ chain' = <<>>
    /\ UNCHANGED <<supported, effects>>

ConvertObjectToGooglePlay ==
  \E data \in Records :
    /\ op = "none"
    /\ op' = "convertObjectToGooglePlay"
    /\ arg' = Obj(data)
    /\ ret' = convertObjectToGooglePlay(data)
    /\ chain' = <<>>
    /\ UNCHANGED <<supported, effects>>

UnifiedToBothPlatforms ==
  \E x \in Codes, piped \in BOOLEAN :
    /\ CanCall(x, piped)
    /\ op' = "unifiedToBothPlatforms"
    /\ arg' = S(x)
    /\ ret' = unifiedToBothPlatforms(S(x))
    /\ chain' = Passed(piped)
    /\ UNCHANGED <<supported, effects>>

AppStoreToUnifiedBatch ==
  \E l \in Lists :
    LET locales == [i \in 1..Len(l) |-> S(l[i])]
    IN  /\ op = "none"
        /\ op' = "appStoreToUnifiedBatch"
        /\ arg' = Arr(locales)
        /\ ret' = appStoreToUnifiedBatch(locales)
        /\ chain' = <<>>
        /\ UNCHANGED <<supported, effects>>

GooglePlayToUnifiedBatch ==
  \E l \in Lists :
    LET locales == [i \in 1..Len(l) |-> S(l[i])]
    IN  /\ op = "none"
        /\ op' = "googlePlayToUnifiedBatch"
        /\ arg' = Arr(locales)
        /\ ret' = googlePlayToUnifiedBatch(locales)
        /\ chain' = <<>>
        /\ UNCHANGED <<supported, effects>>

ConvertObjectFromAppStore ==
  \E data \in Records :
    /\ op = "none"
    /\ op' = "convertObjectFromAppStore"
    /\ arg' = Obj(data)
    /\ ret' = convertObjectFromAppStore(data)
    /\ chain' = <<>>
    /\ UNCHANGED <<supported, effects>>

ConvertObjectFromGooglePlay ==
  \E data \in Records :
    /\ op = "none"
    /\ op' = "convertObjectFromGooglePlay"
    /\ arg' = Obj(data)
    /\ ret' = convertObjectFromGooglePlay(data)
    /\ chain' = <<>>
    /\ UNCHANGED <<supported, effects>>

PrepareAsoDataForPush ==
  \E slug \in Slugs, configData \in PushConfigs :
    /\ op = "none"
    /\ op' = "prepareAsoDataForPush"
    /\ arg' = [kind |-> "object", slug |-> slug, configData |-> configData]
    /\ ret' = prepareAsoDataForPush(slug, configData)
    /\ chain' = <<>>
    /\ UNCHANGED <<supported, effects>>

(* the copies and downloads are taken to succeed *)
DownloadScreenshotsToAsoDir ==
  \E slug \in Slugs, asoData \in DownloadConfigs :
    /\ op = "none"
    /\ op' = "downloadScreenshotsToAsoDir"
    /\ arg' = [kind |-> "object", slug |-> slug, asoData |-> asoData]
    /\ ret' = Undefined
    /\ written' = downloadScreenshotsToAsoDir(asoData)
    /\ chain' = <<>>
    /\ UNCHANGED <<supported, logged>>

(* the awaited copies and downloads are taken to succeed; the console
   output of loadAsoFromConfig is left out *)
HandlePublicToAso ==
  \E slug \in Slugs, dryRun \in DryRuns, configData \in LoadedConfigs :
    /\ op = "none"
    /\ op' = "handlePublicToAso"
    /\ arg' = [kind |-> "object", slug |-> slug, dryRun |-> dryRun,
               configData |-> configData]
    /\ ret' = handlePublicToAso(slug, dryRun, configData)
    /\ written' = written \cup PublicToAsoWrites(slug, dryRun, configData)
    /\ logged' = logged \o PublicToAsoLog(slug, dryRun, configData)
    /\ chain' = <<>>
    /\ UNCHANGED supported

(* builds prompts only: no file is written *)
HandleAsoToPublic ==
  \E slug \in Slugs, asoData \in PullConfigs :
    /\ op = "none"
    /\ op' = "handleAsoToPublic"
    /\ arg' = [kind |-> "object", slug |-> slug, asoData |-> asoData]
    /\ ret' = handleAsoToPublic(slug, asoData)
    /\ chain' = <<>>
    /\ UNCHANGED <<supported, effects>>

(* the caller is done with the outcome of its last call *)
Discard ==
  /\ op # "none"
  /\ op' = "none"
  /\ arg' = Undefined
  /\ ret' = Undefined
  /\ chain' = <<>>
  /\ written' = {}
  /\ logged' = <<>>
  /\ UNCHANGED supported

Next ==
  \/ UnifiedToAppStore
  \/ UnifiedToGooglePlay
  \/ AppStoreToUnified
  \/ GooglePlayToUnified
  \/ ConstantsAppStoreToUnified
  \/ ConstantsGooglePlayToUnified
  \/ AppStoreToGooglePlay
  \/ GooglePlayToAppStore
  \/ IsSupportedLocale
  \/ IsAppStoreLocale
  \/ IsGooglePlayLocale
  \/ UnifiedToAppStoreBatch
  \/ UnifiedToGooglePlayBatch
  \/ ConvertObjectToAppStore
  \/ ConvertObjectToGooglePlay
  \/ UnifiedToBothPlatforms
  \/ AppStoreToUnifiedBatch
  \/ GooglePlayToUnifiedBatch
  \/ ConvertObjectFromAppStore
  \/ ConvertObjectFromGooglePlay
  \/ PrepareAsoDataForPush
  \/ DownloadScreenshotsToAsoDir
  \/ HandlePublicToAso
  \/ HandleAsoToPublic
  \/ Discard

Spec == Init /\ [][Next]_vars

TypeOK ==
  /\ ret.kind \in {"string", "null", "undefined", "function", "boolean",
                   "throw", "array", "object", "content"}
  /\ Len(chain) <= MaxChain

(***************************************************************************)
(* Properties                                                              *)
(***************************************************************************)
Catalog == Elems(UNIFIED_LOCALES)

(* the call whose returned string is the argument of the current call *)
Previous == chain[Len(chain)]

(* the current call is f2 applied to the string returned by f1 *)
Piped(f1, f2) == op = f2 /\ chain # <<>> /\ Previous.op = f1

(* C1 -- App Store round trip: when a catalog member u is translated by
   unifiedToAppStore to a code and that code is handed to appStoreToUnified
   (of either module), the result is u; in particular "ar" -> "ar-SA" ->
   "ar" and "es-419" -> "es-MX" -> "es-419". *)
C1_AppStoreRoundTrip ==
  \A f \in {"appStoreToUnified", "constants.appStoreToUnified"} :
    (Piped("unifiedToAppStore", f) /\ Previous.arg.val \in Catalog)
      => ret = Previous.arg

C1_Witness ==
  /\ Piped("unifiedToAppStore", "appStoreToUnified")
  /\ Previous.arg = S("es-419")
  /\ arg = S("es-MX")
  /\ ret = S("es-419")

(* C2 -- Google Play round trip: when a catalog member u is translated by
   unifiedToGooglePlay to a code and that code is handed to
   googlePlayToUnified (of either module), the result is u. *)
C2_GooglePlayRoundTrip ==
  \A f \in {"googlePlayToUnified", "constants.googlePlayToUnified"} :
    (Piped("unifiedToGooglePlay", f) /\ Previous.arg.val \in Catalog)
      => ret = Previous.arg

C2_Witness ==
  /\ Piped("unifiedToGooglePlay", "googlePlayToUnified")
  /\ Previous.arg = S("he-IL")
  /\ arg = S("iw-IL")
  /\ ret = S("he-IL")

(* C3 -- forward injectivity per store: the code a forward lookup returns
   for a catalog member, unless null, is returned for no other catalog
   member by the same store's forward lookup. *)
C3_ForwardInjective ==
  /\ (op = "unifiedToAppStore" /\ arg.val \in Catalog /\ ret # Null)
       => \A u2 \in Catalog \ {arg.val} : unifiedToAppStore(S(u2)) # ret
  /\ (op = "unifiedToGooglePlay" /\ arg.val \in Catalog /\ ret # Null)
       => \A u2 \in Catalog \ {arg.val} : unifiedToGooglePlay(S(u2)) # ret

C3_Witness ==
  /\ op = "unifiedToGooglePlay"
  /\ arg = S("zh-Hans")
  /\ ret = S("zh-CN")

(* C4 -- unknown platform locale fails loudly: a reverse lookup, of either
   module, given a code that is not a key of its store's reverse table
   throws an error whose message names the code and the store. *)
C4_UnknownPlatformLocaleThrows ==
  /\ (/\ op \in {"appStoreToUnified", "constants.appStoreToUnified"}
      /\ arg.val \notin Keys(APP_STORE_TO_UNIFIED))
       => /\ ret.kind = "throw"
          /\ Includes(ret.val, "App Store")
          /\ Includes(ret.val, arg.val)
  /\ (/\ op \in {"googlePlayToUnified", "constants.googlePlayToUnified"}
      /\ arg.val \notin Keys(GOOGLE_PLAY_TO_UNIFIED))
       => /\ ret.kind = "throw"
          /\ Includes(ret.val, "Google Play")
          /\ Includes(ret.val, arg.val)

(* C5 -- the reverse lookups of the two modules agree: on every input the
   lookup of utils/locale-converter and the lookup of the same name of
   constants/unified-locales return the same unified locale or both fail,
   and a code neither store recognizes meets the same kind of outcome at
   the App Store lookup as at the Google Play lookup. *)
C5_ReverseLookupsAgree ==
  /\ op = "appStoreToUnified" => ret = constants_appStoreToUnified(arg)
  /\ op = "googlePlayToUnified" => ret = constants_googlePlayToUnified(arg)
  /\ (/\ op \in {"appStoreToUnified", "constants.appStoreToUnified"}
      /\ arg.val \notin Keys(APP_STORE_TO_UNIFIED)
      /\ arg.val \notin Keys(GOOGLE_PLAY_TO_UNIFIED))
       => ret.kind = (IF op = "appStoreToUnified"
                        THEN googlePlayToUnified(arg)
                        ELSE constants_googlePlayToUnified(arg)).kind

(* C6 -- unified-code inputs are validated: a forward lookup, a batch
   conversion or a keyed conversion to a store that is handed a code or a
   key outside the catalog ends in an error. *)
C6_UnknownUnifiedLocaleRejected ==
  /\ (op \in {"unifiedToAppStore", "unifiedToGooglePlay"}
        /\ arg.val \notin Catalog)
       => ret.kind = "throw"
  /\ (op \in {"unifiedToAppStoreBatch", "unifiedToGooglePlayBatch"}
        /\ \E i \in 1..Len(arg.items) : arg.items[i].val \notin Catalog)
       => ret.kind = "throw"
  /\ (op \in {"convertObjectToAppStore", "convertObjectToGooglePlay"}
        /\ Keys(arg.entries) \ Catalog # {})
       => ret.kind = "throw"

(* position of each catalog member in UNIFIED_LOCALES *)
CatalogIndex ==
  [u \in Catalog |->
     CHOOSE i \in 1..Len(UNIFIED_LOCALES) : UNIFIED_LOCALES[i] = u]

(* the catalog members a store's forward lookup answers with a code *)
AppStoreCarried == {u \in Catalog : unifiedToAppStore(S(u)) # Null}

GooglePlayCarried == {u \in Catalog : unifiedToGooglePlay(S(u)) # Null}

(* array lists exactly the members of set, each once, in catalog order *)
IsCatalogSublist(array, set) ==
  /\ Elems(array) = set
  /\ set \subseteq Catalog
  /\ \A i \in 1..(Len(array) - 1) :
       CatalogIndex[array[i]] < CatalogIndex[array[i + 1]]

(* C7 -- supported-set derivation: each store's supported array lists, in
   catalog order, exactly the catalog members whose forward mapping for the
   store is not null; so for a catalog member isAppStoreLocale answers false
   exactly when unifiedToAppStore answers null, and likewise for Google
   Play. *)
C7_SupportedSetDerivation ==
  /\ IsCatalogSublist(appStoreSupported, AppStoreCarried)
  /\ IsCatalogSublist(googlePlaySupported, GooglePlayCarried)
  /\ (op = "isAppStoreLocale" /\ arg.val \in Catalog)
       => /\ (ret = Bool(FALSE)) <=> (unifiedToAppStore(arg) = Null)
          /\ (ret = Bool(FALSE)) <=> ~Includes(appStoreSupported, arg.val)
  /\ (op = "isGooglePlayLocale" /\ arg.val \in Catalog)
       => /\ (ret = Bool(FALSE)) <=> (unifiedToGooglePlay(arg) = Null)
          /\ (ret = Bool(FALSE)) <=> ~Includes(googlePlaySupported, arg.val)
  /\ (op = "unifiedToAppStore" /\ arg.val \in Catalog)
       => (ret = Null) <=> ~Includes(appStoreSupported, arg.val)

C7_Witness ==
  /\ op = "isAppStoreLocale"
  /\ arg = S("zh-HK")
  /\ ret = Bool(FALSE)
  /\ Includes(appStoreSupported, "zh-Hans")

(* C8 -- set identity: COMMON_SUPPORTED_LOCALES has exactly the members of
   both APP_STORE_SUPPORTED_LOCALES and GOOGLE_PLAY_SUPPORTED_LOCALES and
   lists none of them twice. *)
C8_CommonIsIntersection ==
  /\ Elems(commonSupported)
       = Elems(appStoreSupported) \cap Elems(googlePlaySupported)
  /\ Cardinality(Elems(commonSupported)) = Len(commonSupported)

C8_Witness ==
  /\ op = "isGooglePlayLocale"
  /\ arg = S("en-IN")
  /\ ret = Bool(TRUE)
  /\ ~Includes(commonSupported, "en-IN")
  /\ Includes(commonSupported, "ar")

(* C9 -- alias collapse: every key p of GOOGLE_PLAY_TO_UNIFIED resolves to
   a catalog member u whose canonical Google Play code is not null and
   resolves back to u, so an alias and the canonical spelling give the same
   unified code. *)
C9_AliasCollapse ==
  \A f \in {"googlePlayToUnified", "constants.googlePlayToUnified"} :
    /\ (op = f /\ arg.val \in Keys(GOOGLE_PLAY_TO_UNIFIED))
         => /\ ret.kind = "string"
            /\ ret.val \in Catalog
    /\ (/\ Piped(f, "unifiedToGooglePlay")
        /\ Previous.arg.val \in Keys(GOOGLE_PLAY_TO_UNIFIED))
         => /\ ret.kind = "string"
            /\ googlePlayToUnified(ret) = arg
            /\ constants_googlePlayToUnified(ret) = arg
            /\ googlePlayToUnified(ret) = googlePlayToUnified(Previous.arg)

C9_Witness ==
  /\ Piped("googlePlayToUnified", "unifiedToGooglePlay")
  /\ Previous.arg = S("in")
  /\ arg = S("id-ID")
  /\ ret = S("id")

(* C10 -- cross-platform pivot round trip: every key p of
   APP_STORE_TO_UNIFIED is carried by appStoreToGooglePlay to a Google Play
   code that googlePlayToAppStore carries back to p, and the Google Play
   codes "zh-CN" and "zh-TW" are carried by googlePlayToAppStore to an App
   Store code that appStoreToGooglePlay carries back to them. *)
C10_PivotRoundTrip ==
  /\ (op = "appStoreToGooglePlay" /\ arg.val \in Keys(APP_STORE_TO_UNIFIED))
       => ret.kind = "string"
  /\ (/\ Piped("appStoreToGooglePlay", "googlePlayToAppStore")
      /\ Previous.arg.val \in Keys(APP_STORE_TO_UNIFIED))
       => ret = Previous.arg
  /\ (op = "googlePlayToAppStore" /\ arg.val \in {"zh-CN", "zh-TW"})
       => ret.kind = "string"
  /\ (/\ Piped("googlePlayToAppStore", "appStoreToGooglePlay")
      /\ Previous.arg.val \in {"zh-CN", "zh-TW"})
       => ret = Previous.arg

C10_Witness ==
  /\ Piped("appStoreToGooglePlay", "googlePlayToAppStore")
  /\ Previous.arg = S("zh-Hant")
  /\ arg = S("zh-TW")
  /\ ret = S("zh-Hant")

(* C11 -- pivot composition: appStoreToGooglePlay is unifiedToGooglePlay
   after appStoreToUnified and googlePlayToAppStore is unifiedToAppStore
   after googlePlayToUnified; for a code its own reverse table recognizes
   the result is the target store's code, or null exactly when the target
   store's forward mapping of the resolved unified locale is null, and an
   error is raised only for a code the reverse table does not recognize. *)
C11_PivotComposition ==
  /\ op = "appStoreToGooglePlay"
       => /\ ret = unifiedToGooglePlay(appStoreToUnified(arg))
          /\ arg.val \in Keys(APP_STORE_TO_UNIFIED)
               => /\ ret.kind \in {"string", "null"}
                  /\ (ret = Null) <=>
                       (Get(UNIFIED_TO_GOOGLE_PLAY,
                            Get(APP_STORE_TO_UNIFIED, arg)) = Null)
          /\ ret.kind = "throw" => arg.val \notin Keys(APP_STORE_TO_UNIFIED)
  /\ op = "googlePlayToAppStore"
       => /\ ret = unifiedToAppStore(googlePlayToUnified(arg))
          /\ arg.val \in Keys(GOOGLE_PLAY_TO_UNIFIED)
               => /\ ret.kind \in {"string", "null"}
                  /\ (ret = Null) <=>
                       (Get(UNIFIED_TO_APP_STORE,
                            Get(GOOGLE_PLAY_TO_UNIFIED, arg)) = Null)
          /\ ret.kind = "throw" => arg.val \notin Keys(GOOGLE_PLAY_TO_UNIFIED)

C11_Witness ==
  /\ op = "googlePlayToAppStore"
  /\ arg = S("en-IN")
  /\ ret = Null

(* the entries of a keyed collection whose key the forward lookup fwd
   answers with a code *)
Carried(entries, fwd(_)) ==
  {i \in 1..Len(entries) : fwd(S(entries[i][1])) # Null}

(* result holds exactly the entries of data that fwd carries, each under
   its forward code and with its value *)
IsKeyedImage(data, result, fwd(_)) ==
  /\ Keys(result) = {fwd(S(data[i][1])).val : i \in Carried(data, fwd)}
  /\ Len(result) = Cardinality(Carried(data, fwd))
  /\ \A i \in Carried(data, fwd) :
       Get(result, fwd(S(data[i][1]))) = data[i][2]

(* C12 -- keyed conversion to a store: for a collection keyed by catalog
   members the result has exactly the non-null forward codes of the input
   keys as keys, each holding the value of its input entry; entries with a
   null forward code are absent and no two entries share an output key. *)
C12_KeyedConversionToStore ==
  /\ (op = "convertObjectToAppStore" /\ Keys(arg.entries) \subseteq Catalog)
       => /\ ret.kind = "object"
          /\ IsKeyedImage(arg.entries, ret.entries, unifiedToAppStore)
  /\ (op = "convertObjectToGooglePlay" /\ Keys(arg.entries) \subseteq Catalog)
       => /\ ret.kind = "object"
          /\ IsKeyedImage(arg.entries, ret.entries, unifiedToGooglePlay)

C12_Witness ==
  /\ op = "convertObjectToAppStore"
  /\ arg = Obj(<< <<"ar", S("v1")>>, <<"en-IN", S("v2")>> >>)
  /\ ret = Obj(<< <<"ar-SA", S("v1")>> >>)

(* result entry j holds the value of an entry of data whose key is a key of
   the reverse table and resolves, by rev, to the key of entry j *)
FromRecognized(data, result, j, table, rev(_)) ==
  \E i \in 1..Len(data) :
    /\ data[i][1] \in Keys(table)
    /\ rev(S(data[i][1])) = S(result[j][1])
    /\ data[i][2] = result[j][2]

(* C13 -- keyed conversion from a store drops unmapped keys: every entry
   of the result of convertObjectFromAppStore / convertObjectFromGooglePlay
   is the entry of an input key that the store's reverse table recognizes;
   an entry with an unrecognized key appears under no key, in particular
   not under "en-US". *)
C13_UnmappedKeysDropped ==
  /\ op = "convertObjectFromAppStore"
       => \A j \in 1..Len(ret.entries) :
            FromRecognized(arg.entries, ret.entries, j,
                           APP_STORE_TO_UNIFIED, appStoreToUnified)
  /\ op = "convertObjectFromGooglePlay"
       => \A j \in 1..Len(ret.entries) :
            FromRecognized(arg.entries, ret.entries, j,
                           GOOGLE_PLAY_TO_UNIFIED, googlePlayToUnified)

(* the call told its caller about entries it left out: it threw, wrote a
   log record, or returned a report next to the result *)
DropReported ==
  \/ ret.kind = "throw"
  \/ logged # <<>>
  \/ "dropped" \in DOMAIN ret

(* C14 -- dropped entries are observable: a keyed conversion that leaves an
   input entry out of its result, because the key has no valid mapping,
   reports the drop to the caller. *)
C14_DropsAreReported ==
  /\ (/\ op = "convertObjectToAppStore"
      /\ \E i \in 1..Len(arg.entries) :
           unifiedToAppStore(S(arg.entries[i][1])) = Null)
       => DropReported
  /\ (/\ op = "convertObjectToGooglePlay"
      /\ \E i \in 1..Len(arg.entries) :
           unifiedToGooglePlay(S(arg.entries[i][1])) = Null)
       => DropReported
  /\ (/\ op = "convertObjectFromAppStore"
      /\ Keys(arg.entries) \ Keys(APP_STORE_TO_UNIFIED) # {})
       => DropReported
  /\ (/\ op = "convertObjectFromGooglePlay"
      /\ Keys(arg.entries) \ Keys(GOOGLE_PLAY_TO_UNIFIED) # {})
       => DropReported

(* the codes table holds for the elements of locales, one by one from the
   first, passing over the elements for which it holds null *)
RECURSIVE ForwardCodes(_, _)
ForwardCodes(locales, table) ==
  IF locales = <<>> THEN <<>>
  ELSE (IF Get(table, Head(locales)) = Null
          THEN <<>>
          ELSE <<Get(table, Head(locales))>>)
         \o ForwardCodes(Tail(locales), table)

(* C15 -- batch conversion: for a list of catalog members the forward
   batches return the non-null forward codes of the elements, in input
   order with duplicates kept and without a null; the reverse batches
   return one unified locale per input element, in input order. *)
C15_BatchConversion ==
  /\ (/\ op = "unifiedToAppStoreBatch"
      /\ \A i \in 1..Len(arg.items) : arg.items[i].val \in Catalog)
       => /\ ret = Arr(ForwardCodes(arg.items, UNIFIED_TO_APP_STORE))
          /\ \A j \in 1..Len(ret.items) : ret.items[j].kind = "string"
  /\ (/\ op = "unifiedToGooglePlayBatch"
      /\ \A i \in 1..Len(arg.items) : arg.items[i].val \in Catalog)
       => /\ ret = Arr(ForwardCodes(arg.items, UNIFIED_TO_GOOGLE_PLAY))
          /\ \A j \in 1..Len(ret.items) : ret.items[j].kind = "string"
  /\ op = "appStoreToUnifiedBatch"
       => /\ ret.kind = "array"
          /\ Len(ret.items) = Len(arg.items)
          /\ \A i \in 1..Len(arg.items) :
               ret.items[i] = appStoreToUnified(arg.items[i])
  /\ op = "googlePlayToUnifiedBatch"
       => /\ ret.kind = "array"
          /\ Len(ret.items) = Len(arg.items)
          /\ \A i \in 1..Len(arg.items) :
               ret.items[i] = googlePlayToUnified(arg.items[i])

C15_Witness ==
  /\ op = "unifiedToAppStoreBatch"
  /\ arg = Arr(<<S("en-IN"), S("ar")>>)
  /\ ret = Arr(<<S("ar-SA")>>)

(* C16 -- isSupportedLocale answers true exactly for the members of the
   catalog UNIFIED_LOCALES; a spelling only a store uses, such as "ar-SA",
   "zh-CN", "ko" or "iw-IL", is not a supported unified locale. *)
C16_IsSupportedLocale ==
  op = "isSupportedLocale"
    => /\ (ret = Bool(TRUE)) <=> (arg.val \in Catalog)
       /\ ret \in {Bool(TRUE), Bool(FALSE)}
       /\ arg.val \in {"ar-SA", "zh-CN", "ko", "iw-IL"} => ret = Bool(FALSE)

C16_Witness ==
  /\ op = "isSupportedLocale"
  /\ arg = S("iw-IL")
  /\ ret = Bool(FALSE)

(* the values an object literal holds *)
ValuesOf(obj) == {obj[i][2] : i \in 1..Len(obj)}

(* v is a unified code of the catalog *)
IsCatalogMember(v) == v.kind = "string" /\ v.val \in Catalog

(* C17 -- the catalog is authoritative: every value of the two reverse
   tables and DEFAULT_LOCALE is a catalog member, and whatever a reverse
   lookup, a reverse batch or a keyed conversion from a store returns as a
   unified code is a catalog member, for every input string. *)
C17_CatalogAuthoritative ==
  /\ \A v \in ValuesOf(APP_STORE_TO_UNIFIED) \cup
              ValuesOf(GOOGLE_PLAY_TO_UNIFIED) : IsCatalogMember(v)
  /\ DEFAULT_LOCALE \in Catalog
  /\ (/\ op \in {"appStoreToUnified", "googlePlayToUnified",
                 "constants.appStoreToUnified",
                 "constants.googlePlayToUnified"}
      /\ ret.kind # "throw")
       => IsCatalogMember(ret)
  /\ op \in {"appStoreToUnifiedBatch", "googlePlayToUnifiedBatch"}
       => \A i \in 1..Len(ret.items) : IsCatalogMember(ret.items[i])
  /\ op \in {"convertObjectFromAppStore", "convertObjectFromGooglePlay"}
       => Keys(ret.entries) \subseteq Catalog

(* the type guards answer from the arrays as module initialisation
   computed them *)
GuardsAnswerAsAtInit ==
  /\ op = "isSupportedLocale"
       => ret = Bool(Includes(UNIFIED_LOCALES, arg.val))
  /\ op = "isAppStoreLocale"
       => ret = Bool(Includes(APP_STORE_SUPPORTED_LOCALES, arg.val))
  /\ op = "isGooglePlayLocale"
       => ret = Bool(Includes(GOOGLE_PLAY_SUPPORTED_LOCALES, arg.val))

(* C18 -- no runtime mutation: no facade operation changes the three
   supported-locale arrays, which stay as module initialisation computed
   them, and a type guard called again with the same code answers as
   before.  (The catalog and the four tables are constants of this
   module, and arguments are values: no operator can assign to them.) *)
C18_NoRuntimeMutation ==
  [][/\ supported' = supported
     /\ appStoreSupported' = APP_STORE_SUPPORTED_LOCALES
     /\ googlePlaySupported' = GOOGLE_PLAY_SUPPORTED_LOCALES
     /\ commonSupported' = COMMON_SUPPORTED_LOCALES
     /\ GuardsAnswerAsAtInit']_vars

C18_Witness ==
  /\ op = "isAppStoreLocale"
  /\ chain # <<>>
  /\ Previous.op = "appStoreToUnified"
  /\ arg = S("he-IL")
  /\ ret = Bool(TRUE)
  /\ appStoreSupported = APP_STORE_SUPPORTED_LOCALES

(* the unified keys under which the push pipeline sees the data of one
   store; own is the field naming the locale of single-locale data *)
PushInputKeys(data, own) ==
  IF IsMultilingual(data) THEN Keys(data.locales)
  ELSE {ToPropertyKey(Or(data[own], S(DEFAULT_LOCALE)))}

(* the non-null forward codes of the catalog members among keys *)
SupportedCodes(keys, table) ==
  {Get(table, S(k)).val :
     k \in {u \in keys : u \in Catalog /\ Get(table, S(u)) # Null}}

(* the unified keys of locales that have screenshots *)
ScreenshotKeys(data) ==
  {data.locales[i][1] :
     i \in {j \in 1..Len(data.locales) : data.locales[j][2].screenshots}}

(* C19 -- publish skips unsupported locales: prepareAsoDataForPush and
   downloadScreenshotsToAsoDir raise no error, and for each store of the
   input the keys of the output locales (the screenshot directories
   written) are exactly the non-null forward codes of the input keys that
   are catalog members: a key whose forward mapping is null or that is
   outside the catalog leaves no entry and no directory, and the
   remaining locales are still processed. *)
C19_PublishSkipsUnsupported ==
  /\ op = "prepareAsoDataForPush" =>
       /\ ret.kind # "throw"
       /\ arg.configData.googlePlay # Undefined =>
            Keys(ret.googlePlay.locales) =
              SupportedCodes(
                PushInputKeys(arg.configData.googlePlay, "defaultLanguage"),
                UNIFIED_TO_GOOGLE_PLAY)
       /\ arg.configData.appStore # Undefined =>
            Keys(ret.appStore.locales) =
              SupportedCodes(
                PushInputKeys(arg.configData.appStore, "locale"),
                UNIFIED_TO_APP_STORE)
  /\ op = "downloadScreenshotsToAsoDir" =>
       /\ ret.kind # "throw"
       /\ {d[3] : d \in {w \in written : w[1] = "google-play"}} =
            IF arg.asoData.googlePlay # Undefined
              THEN SupportedCodes(ScreenshotKeys(arg.asoData.googlePlay),
                                  UNIFIED_TO_GOOGLE_PLAY)
              ELSE {}
       /\ {d[3] : d \in {w \in written : w[1] = "app-store"}} =
            IF arg.asoData.appStore # Undefined
              THEN SupportedCodes(ScreenshotKeys(arg.asoData.appStore),
                                  UNIFIED_TO_APP_STORE)
              ELSE {}

(* C20 -- the doc comments of locale-converter on Arabic: the Google Play
   code of unified "ar" is "ar-SA" in both directions, so
   unifiedToGooglePlay("ar") is "ar-SA", unifiedToBothPlatforms("ar") is
   { appStore: "ar-SA", googlePlay: "ar-SA" }, googlePlayToUnified("ar-SA")
   is "ar", and both pivots send "ar-SA" to "ar-SA". *)
C20_GooglePlayArabicIsArSA ==
  /\ op = "unifiedToGooglePlay" /\ arg = S("ar") => ret = S("ar-SA")
  /\ op = "unifiedToBothPlatforms" /\ arg = S("ar") =>
       ret = Obj(<< <<"appStore", S("ar-SA")>>, <<"googlePlay", S("ar-SA")>> >>)
  /\ op = "googlePlayToUnified" /\ arg = S("ar-SA") => ret = S("ar")
  /\ op = "appStoreToGooglePlay" /\ arg = S("ar-SA") => ret = S("ar-SA")
  /\ op = "googlePlayToAppStore" /\ arg = S("ar-SA") => ret = S("ar-SA")

(* C21 -- the Supported Locales table of the README: "zh-CN" and "zh-TW"
   are unified locale codes, members of UNIFIED_LOCALES (isSupportedLocale
   answers true for them), with unifiedToAppStore("zh-CN") = "zh-Hans", unifiedToGooglePlay("zh-CN") =
   "zh-CN", unifiedToAppStore("zh-TW") = "zh-Hant" and
   unifiedToGooglePlay("zh-TW") = "zh-TW". *)
C21_ReadmeChineseCodes ==
  /\ (op = "isSupportedLocale" /\ arg.val \in {"zh-CN", "zh-TW"})
       => ret = Bool(TRUE)
  /\ (op = "unifiedToAppStore" /\ arg = S("zh-CN")) => ret = S("zh-Hans")
  /\ (op = "unifiedToGooglePlay" /\ arg = S("zh-CN")) => ret = S("zh-CN")
  /\ (op = "unifiedToAppStore" /\ arg = S("zh-TW")) => ret = S("zh-Hant")
  /\ (op = "unifiedToGooglePlay" /\ arg = S("zh-TW")) => ret = S("zh-TW")

(* C24 -- Google Play carries the whole catalog: unifiedToGooglePlay is
   not null on any catalog member, so GOOGLE_PLAY_SUPPORTED_LOCALES is the
   catalog, COMMON_SUPPORTED_LOCALES is APP_STORE_SUPPORTED_LOCALES, and
   appStoreToGooglePlay returns a code, never null, for every key of
   APP_STORE_TO_UNIFIED. *)
C24_GooglePlayCarriesCatalog ==
  /\ googlePlaySupported = UNIFIED_LOCALES
  /\ commonSupported = appStoreSupported
  /\ (op = "unifiedToGooglePlay" /\ arg.val \in Catalog)
       => ret.kind = "string"
  /\ (op = "isGooglePlayLocale" /\ arg.val \in Catalog) => ret = Bool(TRUE)
  /\ (op = "appStoreToGooglePlay" /\ arg.val \in Keys(APP_STORE_TO_UNIFIED))
       => ret.kind = "string"

C24_Witness ==
  /\ op = "appStoreToGooglePlay"
  /\ arg = S("ms")
  /\ ret = S("ms-MY")
  /\ googlePlaySupported = UNIFIED_LOCALES
  /\ Len(commonSupported) < Len(googlePlaySupported)

(* the codes UNIFIED_TO_APP_STORE maps some unified locale to *)
AppStoreCodes ==
  {UNIFIED_TO_APP_STORE[i][2].val :
     i \in {j \in 1..Len(UNIFIED_TO_APP_STORE) :
              UNIFIED_TO_APP_STORE[j][2] # Null}}

(* C25 -- the App Store reverse table has no aliases: the keys of
   APP_STORE_TO_UNIFIED are exactly the non-null values of
   UNIFIED_TO_APP_STORE, and when a key p is translated by
   appStoreToUnified and the result is handed to unifiedToAppStore, the
   result is p. *)
C25_AppStoreNoAliases ==
  /\ Keys(APP_STORE_TO_UNIFIED) = AppStoreCodes
  /\ \A f \in {"appStoreToUnified", "constants.appStoreToUnified"} :
       (Piped(f, "unifiedToAppStore")
          /\ Previous.arg.val \in Keys(APP_STORE_TO_UNIFIED))
         => ret = Previous.arg

C25_Witness ==
  /\ Piped("appStoreToUnified", "unifiedToAppStore")
  /\ Previous.arg = S("ms")
  /\ arg = S("ms-MY")
  /\ ret = S("ms")

(* C26 -- cross-store agreement on shared spellings: a code that is a key
   of both APP_STORE_TO_UNIFIED and GOOGLE_PLAY_TO_UNIFIED is resolved to
   the same unified locale by appStoreToUnified and googlePlayToUnified. *)
C26_SharedSpellingsAgree ==
  /\ (/\ op \in {"appStoreToUnified", "constants.appStoreToUnified"}
      /\ arg.val \in Keys(APP_STORE_TO_UNIFIED)
      /\ arg.val \in Keys(GOOGLE_PLAY_TO_UNIFIED))
       => ret = googlePlayToUnified(arg)
  /\ (/\ op \in {"googlePlayToUnified", "constants.googlePlayToUnified"}
      /\ arg.val \in Keys(APP_STORE_TO_UNIFIED)
      /\ arg.val \in Keys(GOOGLE_PLAY_TO_UNIFIED))
       => ret = appStoreToUnified(arg)

(* C27 -- reverse keyed conversion loses no recognized entry: for an input
   whose keys are all keys of the store's reverse table,
   convertObjectFromAppStore (convertObjectFromGooglePlay) returns as many
   entries as it was given, every input value is the value of some entry
   of the result, and so no two input keys are written to the same unified
   key. *)
C27_ReverseConversionLosesNothing ==
  /\ (/\ op = "convertObjectFromAppStore"
      /\ Keys(arg.entries) \subseteq Keys(APP_STORE_TO_UNIFIED))
       => /\ Len(ret.entries) = Len(arg.entries)
          /\ \A i \in 1..Len(arg.entries) :
               \E j \in 1..Len(ret.entries) :
                 ret.entries[j] =
                   <<appStoreToUnified(S(arg.entries[i][1])).val,
                     arg.entries[i][2]>>
  /\ (/\ op = "convertObjectFromGooglePlay"
      /\ Keys(arg.entries) \subseteq Keys(GOOGLE_PLAY_TO_UNIFIED))
       => /\ Len(ret.entries) = Len(arg.entries)
          /\ \A i \in 1..Len(arg.entries) :
               \E j \in 1..Len(ret.entries) :
                 ret.entries[j] =
                   <<googlePlayToUnified(S(arg.entries[i][1])).val,
                     arg.entries[i][2]>>

(* C29 -- the default locale of prepared push data: for input whose locale
   keys are catalog members, in each store of the result whose converted
   locales are not empty, defaultLocale is a key of that store's locales. *)
C29_DefaultLocaleIsOutputKey ==
  op = "prepareAsoDataForPush" =>
    /\ (/\ arg.configData.googlePlay # Undefined
        /\ PushInputKeys(arg.configData.googlePlay, "defaultLanguage")
             \subseteq Catalog
        /\ ret.googlePlay.locales # <<>>)
         => ToPropertyKey(ret.googlePlay.defaultLocale)
              \in Keys(ret.googlePlay.locales)
    /\ (/\ arg.configData.appStore # Undefined
        /\ PushInputKeys(arg.configData.appStore, "locale") \subseteq Catalog
        /\ ret.appStore.locales # <<>>)
         => ToPropertyKey(ret.appStore.defaultLocale)
              \in Keys(ret.appStore.locales)

(* C22 -- preview mode makes no changes: a call of handlePublicToAso with
   dryRun = true writes no file and no console record of saveRawAsoData
   (neither saveRawAsoData nor downloadScreenshotsToAsoDir runs), so the
   push data directory is after the call what it was before, and the call
   returns the prepared store data. *)
C22_PreviewMakesNoChanges ==
  [][(op' = "handlePublicToAso" /\ arg'.dryRun = Bool(TRUE))
       => /\ written' = written
          /\ logged' = logged
          /\ ret'.kind # "throw"
               => /\ ret'.kind = "content"
                  /\ ret'.text[2] =
                       JsonStringify(
                         prepareAsoDataForPush(arg'.slug, arg'.configData))]_vars

C22_Witness ==
  /\ op = "handlePublicToAso"
  /\ arg.dryRun = Bool(TRUE)
  /\ ret.kind = "content"
  /\ DOMAIN ret.text[2] = {"googlePlay", "appStore"}
  /\ downloadScreenshotsToAsoDir(arg.configData) # {}
  /\ written = {}
  /\ logged = <<>>

(* the locales of a store of the pull data handed to handleAsoToPublic *)
PulledGooglePlay ==
  IF arg.asoData.googlePlay # Undefined
    THEN PullLocales(arg.asoData.googlePlay, "defaultLanguage") ELSE <<>>

PulledAppStore ==
  IF arg.asoData.appStore # Undefined
    THEN PullLocales(arg.asoData.appStore, "locale") ELSE <<>>

(* the unified locales the keys of a store's pull data resolve to *)
PulledGooglePlayUnified ==
  {constants_googlePlayToUnified(S(PulledGooglePlay[i][1])) :
     i \in 1..Len(PulledGooglePlay)}

PulledAppStoreUnified ==
  {constants_appStoreToUnified(S(PulledAppStore[i][1])) :
     i \in 1..Len(PulledAppStore)}

(* C23 -- handleAsoToPublic merges by unified locale: it emits exactly one
   conversion task per distinct unified locale that the platform keys of
   the Google Play and App Store pull data resolve to; a task carries the
   data of each store that has a key resolving to its locale, and its
   sources name exactly those stores, both when both have one. *)
C23_MergeByUnifiedLocale ==
  (op = "handleAsoToPublic" /\ ret.kind = "content") =>
    LET tasks == ret.conversionTasks
    IN  /\ {tasks[i].locale : i \in 1..Len(tasks)}
             = PulledGooglePlayUnified \cup PulledAppStoreUnified
        /\ \A i, j \in 1..Len(tasks) :
             tasks[i].locale = tasks[j].locale => i = j
        /\ \A i \in 1..Len(tasks) :
             /\ tasks[i].sources =
                  (IF tasks[i].locale \in PulledGooglePlayUnified
                     THEN <<"Google Play">> ELSE <<>>)
                  \o (IF tasks[i].locale \in PulledAppStoreUnified
                        THEN <<"App Store">> ELSE <<>>)
             /\ tasks[i].prompt.googlePlay # Undefined
                  <=> tasks[i].locale \in PulledGooglePlayUnified
             /\ tasks[i].prompt.appStore # Undefined
                  <=> tasks[i].locale \in PulledAppStoreUnified
             /\ tasks[i].prompt.googlePlay # Undefined
                  => \E k \in 1..Len(PulledGooglePlay) :
                       /\ constants_googlePlayToUnified(
                            S(PulledGooglePlay[k][1])) = tasks[i].locale
                       /\ tasks[i].prompt.googlePlay.title
                            = PulledGooglePlay[k][2].title
             /\ tasks[i].prompt.appStore # Undefined
                  => \E k \in 1..Len(PulledAppStore) :
                       /\ constants_appStoreToUnified(
                            S(PulledAppStore[k][1])) = tasks[i].locale
                       /\ tasks[i].prompt.appStore.name
                            = PulledAppStore[k][2].name

C23_Witness ==
  /\ op = "handleAsoToPublic"
  /\ ret.kind = "content"
  /\ Len(PulledGooglePlay) = 2
  /\ Len(PulledAppStore) = 2
  /\ Len(ret.conversionTasks) = 3
  /\ \E i \in 1..Len(ret.conversionTasks) :
       /\ ret.conversionTasks[i].locale = S("id-ID")
       /\ ret.conversionTasks[i].sources = <<"Google Play", "App Store">>
  /\ \E i \in 1..Len(ret.conversionTasks) :
       /\ ret.conversionTasks[i].locale = S("ms-MY")
       /\ ret.conversionTasks[i].sources = <<"App Store">>

(* C28 -- screenshot paths of handleAsoToPublic: in every conversion task
   the Google Play (App Store) screenshot path names the platform locale
   whose data was merged into the task, also when several keys of one
   store resolve to the task's unified locale. *)
C28_ScreenshotPathNamesMergedLocale ==
  (op = "handleAsoToPublic" /\ ret.kind = "content") =>
    \A i \in 1..Len(ret.conversionTasks) :
      LET prompt == ret.conversionTasks[i].prompt
      IN  /\ prompt.googlePlay # Undefined
               => /\ prompt.screenshotPaths.googlePlay # Undefined
                  /\ \E k \in 1..Len(PulledGooglePlay) :
                       /\ prompt.screenshotPaths.googlePlay.val[6]
                            = PulledGooglePlay[k][1]
                       /\ prompt.googlePlay.title
                            = PulledGooglePlay[k][2].title
          /\ prompt.appStore # Undefined
               => /\ prompt.screenshotPaths.appStore # Undefined
                  /\ \E k \in 1..Len(PulledAppStore) :
                       /\ prompt.screenshotPaths.appStore.val[6]
                            = PulledAppStore[k][1]
                       /\ prompt.appStore.name = PulledAppStore[k][2].name

====
